---- MODULE Spec2Model ----
(***************************************************************************)
(* Equatio: the equation data model (Term, Equation, EquationSet) and the  *)
(* drag-and-drop placement engine (DraggableTerm.handle_event and the      *)
(* event loop of main).                                                    *)
(*                                                                         *)
(* Encodings.  A latex_code and an equation name are strings in the        *)
(* source and are only compared and sorted: they are numbered here in      *)
(* their string order (code 0 is the string "0", which sorts before every  *)
(* letter).  A screen coordinate is abstracted to the zone it lies in: the *)
(* rectangle of one grid cell, of one slot, the check button, the strip    *)
(* where the last grid row and the first slot overlap in a small window,   *)
(* or none of these.  A token's rect is the zone it covers, so             *)
(* rect.collidepoint(pos) is rect = pos and the grab offset is zero.       *)
(* A slot's pos_key is the one-element tuple <<idx>> (an int in the        *)
(* source), a grid cell's is <<r, c>>.                                     *)
(* A sprite_id is a string in the source: it is a number here, None for    *)
(* the argument left out, and the SHA-1 digests are numbered from 100 on.  *)
(* A dict is a record; the JSON file holds the list that json.dump wrote.  *)
(*                                                                         *)
(* Events.  The loop's pointer events are modelled; QUIT and VIDEORESIZE   *)
(* are not.  The per-frame re-centring of slot tokens assigns to a resting *)
(* slot token the rect and origin_rect it already has under this           *)
(* abstraction, so it is no step of its own.                               *)
(***************************************************************************)
EXTENDS Integers, Sequences, FiniteSets, TLC

\* Board size: the side of the grid and the slots per side of the equation bar.
GRID_SIZE == 2
SLOTS_PER_SIDE == 1

\* Python's None: an empty container.
None == 0

----------------------------------------------------------------------------
(* Term                                                                    *)

\* A sign test that rejects the empty sign only.
Term_raises_empty(sign) ==
    sign = ""

\* Term.__init__ raises ValueError: the sign is neither "+" nor "-".
Term_raises(sign) ==
    sign \notin {"+", "-"}

\* A digest of the latex_code alone.
sha1_of_code(sign, latex_code) ==
    100 + latex_code

\* hashlib.sha1(f"{sign}{latex_code}".encode()).hexdigest().  The sign is one
\* character, so the hashed string determines sign and code; digests of
\* different strings are different.  Digests are numbered from 100 on and a
\* sprite_id given by the caller is any number, a digest included.
sha1(sign, latex_code) ==
    100 + 2 * latex_code + (IF sign = "+" THEN 0 ELSE 1)

\* Term.__init__ with all four arguments: the attributes of the new Term (when
\* it does not raise).  "sprite_id or ..." takes the digest for None.
TermInit(name, latex_code, sign, sprite_id) ==
    [name      |-> name,
     latex_code |-> latex_code,
     sign      |-> sign,
     sprite_id |-> IF sprite_id = None THEN sha1(sign, latex_code) ELSE sprite_id]

\* Term(name, latex_code, sign): sprite_id defaults to None.
Term(name, latex_code, sign) == TermInit(name, latex_code, sign, None)

\* Term.get_sprite_path: SPRITE_DIR / f"{sprite_id}.png"
get_sprite_path(t) == <<"sprites", t.sprite_id, "png">>

\* Term.as_dict
TermAsDict(t) ==
    [name |-> t.name, sign |-> t.sign, latex_code |-> t.latex_code,
     sprite_id |-> t.sprite_id]

\* Term.from_dict raises ValueError (from the constructor).
TermFromDict_raises(data) ==
    Term_raises(IF "sign" \in DOMAIN data THEN data.sign ELSE "+")

\* A reading that drops the sprite_id of the record.
TermFromDictNoSprite(data) ==
    TermInit(data.name, data.latex_code,
             IF "sign" \in DOMAIN data THEN data.sign ELSE "+", None)

\* Term.from_dict: a missing sign is "+", a missing sprite_id is None.
TermFromDict(data) ==
    TermInit(data.name, data.latex_code,
             IF "sign" \in DOMAIN data THEN data.sign ELSE "+",
             IF "sprite_id" \in DOMAIN data THEN data.sprite_id ELSE None)

\* An equality that also compares the names.
TermEqWithName(a, b) ==
    a.sign = b.sign /\ a.latex_code = b.latex_code /\ a.name = b.name

\* Term.__eq__: sign and latex_code, the name is ignored.
TermEq(a, b) ==
    a.sign = b.sign /\ a.latex_code = b.latex_code

----------------------------------------------------------------------------
(* Equation                                                                *)

ZEREO_TERM == Term("0", 0, "+")

\* list.insert of x into the sorted list s, after every element with key <= key(x)
\* (sorted() is stable).
RECURSIVE InsertByCode(_, _)
InsertByCode(s, x) ==
    IF s = <<>> THEN <<x>>
    ELSE IF Head(s).latex_code <= x.latex_code
         THEN <<Head(s)>> \o InsertByCode(Tail(s), x)
         ELSE <<x>> \o s

\* sorted(side, key=lambda t: t.latex_code)
RECURSIVE SortedByCode(_)
SortedByCode(side) ==
    IF side = <<>> THEN <<>>
    ELSE InsertByCode(SortedByCode(SubSeq(side, 1, Len(side) - 1)), side[Len(side)])

\* A construction that keeps the sides as they are given.
EquationAsGiven(name, left, right) ==
    [name  |-> name,
     left  |-> left,
     right |-> right]

\* Equation.__init__
Equation(name, left, right) ==
    [name  |-> name,
     left  |-> SortedByCode(IF left = <<>> THEN <<ZEREO_TERM>> ELSE left),
     right |-> SortedByCode(IF right = <<>> THEN <<ZEREO_TERM>> ELSE right)]

\* list == list over Term.__eq__
SideEq(a, b) ==
    Len(a) = Len(b) /\ \A i \in 1..Len(a) : TermEq(a[i], b[i])

\* An equality that also accepts the sides in the other orientation.
EquationEqMirrored(e1, e2) ==
    \/ SideEq(e1.left, e2.left) /\ SideEq(e1.right, e2.right)
    \/ SideEq(e1.left, e2.right) /\ SideEq(e1.right, e2.left)

\* Equation.__eq__
EquationEq(e1, e2) ==
    SideEq(e1.left, e2.left) /\ SideEq(e1.right, e2.right)

\* Equation._check_side
check_side(self_side, test_side) ==
    Len(self_side) = Len(test_side)
    /\ \A i \in 1..Len(self_side) : TermEq(self_side[i], SortedByCode(test_side)[i])

\* Equation.check_input
check_input(e, test_left, test_right) ==
    check_side(e.left, test_left) /\ check_side(e.right, test_right)

\* A listing of the right terms before the left terms.
EquationAllTermsRightFirst(e) ==
    e.right \o e.left

\* Equation.all_terms
EquationAllTerms(e) ==
    e.left \o e.right

\* A reading of the records of a side from the last to the first.
SideFromDictsReversed(side) ==
    [i \in 1..Len(side) |-> TermFromDict(side[Len(side) + 1 - i])]

\* [f(elem) for elem in side]
SideAsDicts(side) ==
    [i \in 1..Len(side) |-> TermAsDict(side[i])]
SideFromDicts(side) ==
    [i \in 1..Len(side) |-> TermFromDict(side[i])]

\* Equation.as_dict
EquationAsDict(e) ==
    [name |-> e.name, left |-> SideAsDicts(e.left), right |-> SideAsDicts(e.right)]

\* Equation.from_dict raises ValueError (from a Term constructor).
EquationFromDict_raises(data) ==
    \/ \E i \in 1..Len(data.left) : TermFromDict_raises(data.left[i])
    \/ \E i \in 1..Len(data.right) : TermFromDict_raises(data.right[i])

\* Equation.from_dict
EquationFromDict(data) ==
    Equation(data.name, SideFromDicts(data.left), SideFromDicts(data.right))

----------------------------------------------------------------------------
(* EquationSet                                                             *)

\* equation in equations (list membership over Equation.__eq__)
InEquations(e, equations) ==
    \E i \in 1..Len(equations) : EquationEq(equations[i], e)

\* A construction that drops only entries that repeat the entry before them.
RECURSIVE UniqueAdjacent(_)
UniqueAdjacent(equations) ==
    IF equations = <<>> THEN <<>>
    ELSE LET init == UniqueAdjacent(SubSeq(equations, 1, Len(equations) - 1))
             last == equations[Len(equations)]
         IN  IF init # <<>> /\ EquationEq(init[Len(init)], last)
             THEN init ELSE Append(init, last)

RECURSIVE Unique(_)
Unique(equations) ==
    IF equations = <<>> THEN <<>>
    ELSE LET init == Unique(SubSeq(equations, 1, Len(equations) - 1))
             last == equations[Len(equations)]
         IN  IF InEquations(last, init) THEN init ELSE Append(init, last)

RECURSIVE InsertByName(_, _)
InsertByName(s, e) ==
    IF s = <<>> THEN <<e>>
    ELSE IF Head(s).name <= e.name
         THEN <<Head(s)>> \o InsertByName(Tail(s), e)
         ELSE <<e>> \o s

\* sorted(equations, key=lambda equ: equ.name)
RECURSIVE SortedByName(_)
SortedByName(equations) ==
    IF equations = <<>> THEN <<>>
    ELSE InsertByName(SortedByName(SubSeq(equations, 1, Len(equations) - 1)),
                      equations[Len(equations)])

\* EquationSet.__init__ (the equations attribute)
EquationSet(equations) == SortedByName(Unique(equations))

\* EquationSet.__eq__: list == list over Equation.__eq__
EquationSetEq(s1, s2) ==
    Len(s1) = Len(s2) /\ \A i \in 1..Len(s1) : EquationEq(s1[i], s2[i])

\* An addition that appends and does not sort.
add_equation_unsorted(equations, new_equation) ==
    IF ~InEquations(new_equation, equations)
    THEN Append(equations, new_equation)
    ELSE equations

\* EquationSet.add_equation
add_equation(equations, new_equation) ==
    IF ~InEquations(new_equation, equations)
    THEN SortedByName(Append(equations, new_equation))
    ELSE equations

\* A removal that drops the last element of the list.
ListRemoveLast(equations, e) ==
    SubSeq(equations, 1, Len(equations) - 1)

\* list.remove(x): the list without its first element equal to x.
RECURSIVE ListRemove(_, _)
ListRemove(equations, e) ==
    IF equations = <<>> THEN <<>>
    ELSE IF EquationEq(Head(equations), e) THEN Tail(equations)
    ELSE <<Head(equations)>> \o ListRemove(Tail(equations), e)

\* EquationSet.remove_equation raises ValueError.
remove_raises(equations, e) == ~InEquations(e, equations)

\* A removal that drops the first member when the equation is not found.
remove_equation_or_first(equations, e) ==
    IF InEquations(e, equations) THEN ListRemove(equations, e)
    ELSE IF equations = <<>> THEN <<>> ELSE Tail(equations)

\* EquationSet.remove_equation: the equations attribute afterwards (unchanged
\* when it raises).
remove_equation(equations, e) ==
    IF InEquations(e, equations) THEN ListRemove(equations, e) ELSE equations

\* An export that leaves out the last equation.
to_json_partial(equations) ==
    [i \in 1..(Len(equations) - 1) |-> EquationAsDict(equations[i])]

\* EquationSet.to_json: the list written to the file.
to_json(equations) ==
    [i \in 1..Len(equations) |-> EquationAsDict(equations[i])]

\* EquationSet.from_json raises ValueError (from a Term constructor).
from_json_raises(records) ==
    \E i \in 1..Len(records) : EquationFromDict_raises(records[i])

\* EquationSet.from_json: the equations of the set built from the file's list.
from_json(records) ==
    EquationSet([i \in 1..Len(records) |-> EquationFromDict(records[i])])

\* EquationSet.all_terms
RECURSIVE SetAllTerms(_)
SetAllTerms(equations) ==
    IF equations = <<>> THEN <<>>
    ELSE EquationAllTerms(Head(equations)) \o SetAllTerms(Tail(equations))

----------------------------------------------------------------------------
(* The game: containers, geometry and the loaded equation set              *)

\* Terms of the test data.  The codes "0" < "\frac{\operatorname{d} p}{..." <
\* "\operatorname{d} U" < "\partial Q" < "\partial W" < "\rho R T" < "\rho g" < "p"
\* are numbered 0..7 in their string order.
P == Term("pressure", 7, "+")
T_P3 == Term("pressure", 7, "-")
RHO_R_T == Term("density, specific gas constant, temperature", 5, "+")
DP_DZ == Term("vertical pressure gradient", 1, "+")
RHO_G == Term("density, gravitational acceleration", 6, "-")
D_U == Term("total differential of inner energy", 2, "+")
DEL_Q == Term("partial differential of heat", 3, "+")
DEL_W == Term("partial differential of work", 4, "+")

\* Equations, with their names numbered in string order: "first law of
\* thermodynamics" < "hydrostatic equation" < "hydrostatic pressure drop" <
\* "ideal gas law (not only) for meteorology" < "ideal gas law for meteorology".
GAS_LAW == Equation(5, <<P>>, <<RHO_R_T>>)
NEXT_GAS_LAW == Equation(4, <<P>>, <<RHO_R_T>>)
HYDROSTATIC == Equation(2, <<DP_DZ>>, <<RHO_G>>)
FIRST_LAW == Equation(1, <<D_U>>, <<DEL_Q, DEL_W>>)
PRESSURE_DROP == Equation(3, <<T_P3>>, <<RHO_G>>)

\* Contents of standard_set.json: one equation, two that use the code "p"
\* under both signs, or three with more terms than the grid has cells.
ONE_EQUATION_SET == EquationSet(<<GAS_LAW>>)
TWO_SIGNS_SET == EquationSet(<<GAS_LAW, PRESSURE_DROP>>)
BASIC_EQUATION_SET == EquationSet(<<GAS_LAW, HYDROSTATIC, FIRST_LAW>>)

\* cell_rects.keys(): product(range(GRID_SIZE), range(GRID_SIZE)), in insertion order.
cell_keys ==
    [i \in 1..(GRID_SIZE * GRID_SIZE) |->
        <<(i - 1) \div GRID_SIZE, (i - 1) % GRID_SIZE>>]

Cells == {cell_keys[i] : i \in 1..Len(cell_keys)}

\* range(len(slots)): the first SLOTS_PER_SIDE are the left side.
SlotIdx == 0..(2 * SLOTS_PER_SIDE - 1)

\* Zones of the screen.
CellPoint(key) == <<"grid", key>>
SlotPoint(idx) == <<"slot", <<idx>>>>
CheckPoint == <<"check", <<>>>>
OutsidePoint == <<"outside", <<>>>>
\* In a window resized to a small height the equation bar, whose height is fixed,
\* reaches into the last grid row: this zone lies in cell (GRID_SIZE-1, 0) and in
\* slot 0.
OverlapPoint == <<"overlap", <<>>>>

Points ==
    {CellPoint(k) : k \in Cells} \cup {SlotPoint(i) : i \in SlotIdx}
    \cup {CheckPoint, OutsidePoint, OverlapPoint}

\* cell_rects[key].collidepoint(pos)
CellCollide(key, pos) ==
    pos = CellPoint(key) \/ (pos = OverlapPoint /\ key = <<GRID_SIZE - 1, 0>>)

\* slot_rects[idx].collidepoint(pos)
SlotCollide(idx, pos) ==
    pos = SlotPoint(idx) \/ (pos = OverlapPoint /\ idx = 0)

\* check_button_rect.collidepoint(pos)
CheckCollide(pos) == pos = CheckPoint

\* dt.rect.collidepoint(pos)
collidepoint(rect, pos) == rect = pos

\* zip(all_terms, available_positions): one token per term while cells last.
NumTokens(all_terms) ==
    IF Len(all_terms) <= Len(cell_keys) THEN Len(all_terms) ELSE Len(cell_keys)

VARIABLES
    equation_set,     \* equation_set.equations, loaded at game start
    grid,             \* grid[<<r, c>>]: the token in the cell, or None
    slots,            \* slots[idx]: the token in the slot, or None
    tok,              \* the DraggableTerm objects, by token
    draggable_terms,  \* the list of the tokens in play
    correct,          \* verdict of the last submission
    feedback_message, \* message of the last submission
    json_file         \* the JSON file of the set: whether it exists, and its list

vars ==
    <<equation_set, grid, slots, tok, draggable_terms, correct, feedback_message,
      json_file>>

\* The JSON file before anything is written, and with a list written to it.
NoFile == [exists |-> FALSE, records |-> <<>>]
File(records) == [exists |-> TRUE, records |-> records]

\* The tokens created at game start.
Tokens == DOMAIN tok

\* The state of the game as one value: the handlers below map such values.
Cur ==
    [equation_set     |-> equation_set,
     grid             |-> grid,
     slots            |-> slots,
     tok              |-> tok,
     draggable_terms  |-> draggable_terms,
     correct          |-> correct,
     feedback_message |-> feedback_message]

----------------------------------------------------------------------------
(* DraggableTerm                                                           *)

\* DraggableTerm.__init__
DraggableTerm(term, pos_key, container) ==
    [term             |-> term,
     rect             |-> <<container, pos_key>>,
     pos_key          |-> pos_key,
     container        |-> container,
     origin_key       |-> pos_key,
     origin_rect      |-> <<container, pos_key>>,
     origin_container |-> container,
     dragging         |-> FALSE]

\* grid[r][c] or slots[idx], whichever (container, key) names
GetAt(st, container, key) ==
    IF container = "grid" THEN st.grid[key] ELSE st.slots[key[1]]

\* grid[r][c] = v or slots[idx] = v
SetAt(st, container, key, v) ==
    IF container = "grid" THEN [st EXCEPT !.grid[key] = v]
    ELSE [st EXCEPT !.slots[key[1]] = v]

\* A pointer-down that sets the flag and leaves the container as it is.
mouse_button_down_keeps_container(st, t, pos) ==
    IF collidepoint(st.tok[t].rect, pos)
    THEN [st EXCEPT !.tok[t].dragging = TRUE]
    ELSE st

\* handle_event, MOUSEBUTTONDOWN branch
mouse_button_down(st, t, pos) ==
    LET d == st.tok[t] IN
    IF collidepoint(d.rect, pos)
    THEN [SetAt(st, d.container, d.pos_key, None) EXCEPT !.tok[t].dragging = TRUE]
    ELSE st

\* The first grid cell, in cell_rects order, that contains pos and is empty;
\* 0 when there is none.
FirstEmptyCell(g, pos) ==
    LET ok == {i \in 1..Len(cell_keys) :
                  CellCollide(cell_keys[i], pos) /\ g[cell_keys[i]] = None}
    IN  IF ok = {} THEN 0 ELSE CHOOSE i \in ok : \A j \in ok : i <= j

\* The first slot that contains pos and is empty; -1 when there is none.
FirstEmptySlot(s, pos) ==
    LET ok == {i \in SlotIdx : SlotCollide(i, pos) /\ s[i] = None}
    IN  IF ok = {} THEN -1 ELSE CHOOSE i \in ok : \A j \in ok : i <= j

\* The assignments of a commit to (container, key).
Commit(st, t, container, key) ==
    [SetAt(st, container, key, t) EXCEPT
        !.tok[t] = [@ EXCEPT !.dragging = FALSE,
                             !.container = container,
                             !.pos_key = key,
                             !.rect = <<container, key>>,
                             !.origin_key = key,
                             !.origin_rect = <<container, key>>,
                             !.origin_container = container]]

\* "else return to origin"
Rollback(st, t) ==
    LET d == st.tok[t] IN
    [SetAt(st, d.origin_container, d.origin_key, t) EXCEPT
        !.tok[t] = [@ EXCEPT !.dragging = FALSE,
                             !.pos_key = d.origin_key,
                             !.rect = d.origin_rect,
                             !.container = d.origin_container]]

\* A pointer-up that tests the slots before the grid cells.
mouse_button_up_slots_first(st, t, pos) ==
    IF ~st.tok[t].dragging THEN st
    ELSE LET c == FirstEmptyCell(st.grid, pos)
             s == FirstEmptySlot(st.slots, pos)
         IN  IF s # -1 THEN Commit(st, t, "slot", <<s>>)
             ELSE IF c # 0 THEN Commit(st, t, "grid", cell_keys[c])
             ELSE Rollback(st, t)

\* A pointer-up that does not test the dragging flag.
mouse_button_up_any(st, t, pos) ==
    LET c == FirstEmptyCell(st.grid, pos)
        s == FirstEmptySlot(st.slots, pos)
    IN  IF c # 0 THEN Commit(st, t, "grid", cell_keys[c])
        ELSE IF s # -1 THEN Commit(st, t, "slot", <<s>>)
        ELSE Rollback(st, t)

\* handle_event, MOUSEBUTTONUP branch
mouse_button_up(st, t, pos) ==
    IF ~st.tok[t].dragging THEN st
    ELSE LET c == FirstEmptyCell(st.grid, pos)
             s == FirstEmptySlot(st.slots, pos)
         IN  IF c # 0 THEN Commit(st, t, "grid", cell_keys[c])
             ELSE IF s # -1 THEN Commit(st, t, "slot", <<s>>)
             ELSE Rollback(st, t)

\* handle_event, MOUSEMOTION branch: the rect follows the pointer.
mouse_motion(st, t, pos) ==
    IF ~st.tok[t].dragging THEN st
    ELSE [st EXCEPT !.tok[t].rect = pos]

\* DraggableTerm.handle_event
handle_event(st, t, event) ==
    IF event.type = "MOUSEBUTTONDOWN" THEN mouse_button_down(st, t, event.pos)
    ELSE IF event.type = "MOUSEBUTTONUP" THEN mouse_button_up(st, t, event.pos)
    ELSE IF event.type = "MOUSEMOTION" THEN mouse_motion(st, t, event.pos)
    ELSE st

\* for dt in dts: dt.handle_event(event, grid, slots, cell_rects, slot_rects)
RECURSIVE Dispatch(_, _, _)
Dispatch(st, dts, event) ==
    IF dts = <<>> THEN st
    ELSE Dispatch(handle_event(st, Head(dts), event), Tail(dts), event)

----------------------------------------------------------------------------
(* main: the submission and the event loop                                 *)

\* [slots[i].term for i in range(lo, hi) if slots[i]]
RECURSIVE SlotTerms(_, _, _)
SlotTerms(st, lo, hi) ==
    IF lo >= hi THEN <<>>
    ELSE (IF st.slots[lo] # None THEN <<st.tok[st.slots[lo]].term>> ELSE <<>>)
         \o SlotTerms(st, lo + 1, hi)

\* [t.latex_code for t in terms]
Codes(terms) == [i \in 1..Len(terms) |-> terms[i].latex_code]

RECURSIVE InsertCode(_, _)
InsertCode(s, x) ==
    IF s = <<>> THEN <<x>>
    ELSE IF Head(s) <= x THEN <<Head(s)>> \o InsertCode(Tail(s), x)
         ELSE <<x>> \o s

\* sorted(codes)
RECURSIVE SortedCodes(_)
SortedCodes(codes) ==
    IF codes = <<>> THEN <<>>
    ELSE InsertCode(SortedCodes(SubSeq(codes, 1, Len(codes) - 1)), codes[Len(codes)])

\* A test that asks only that every submitted code occurs on the side.
CodesMatchContained(eq, left_codes, right_codes) ==
    LET In(codes, side) ==
            \A i \in 1..Len(codes) : \E j \in 1..Len(side) : codes[i] = side[j]
    IN  \/ In(left_codes, Codes(eq.left)) /\ In(right_codes, Codes(eq.right))
        \/ In(left_codes, Codes(eq.right)) /\ In(right_codes, Codes(eq.left))

\* The test of the loop over equation_set.equations, for one equation.
CodesMatch(eq, left_codes, right_codes) ==
    \/ left_codes = Codes(eq.left) /\ right_codes = Codes(eq.right)
    \/ left_codes = Codes(eq.right) /\ right_codes = Codes(eq.left)

\* The value of correct after the loop.
IsCorrect(equations, left_terms, right_terms) ==
    LET left_codes  == SortedCodes(Codes(left_terms))
        right_codes == SortedCodes(Codes(right_terms))
    IN  \E i \in 1..Len(equations) :
            CodesMatch(equations[i], left_codes, right_codes)

\* A removal that takes out the token of the first slot only.
RemoveFirstUsed(dts, s) ==
    SelectSeq(dts, LAMBDA t : s[0] # t)

\* A match that removes every token.
RemoveAllTerms(dts, s) ==
    <<>>

\* A match that removes no token.
RemoveNone(dts, s) ==
    dts

\* draggable_terms.remove(dt) for every dt of slots
RemoveUsed(dts, s) ==
    SelectSeq(dts, LAMBDA t : \A i \in SlotIdx : s[i] # t)

\* A search that takes the last grid cell whether it is empty or not.
LastCellOfGrid(g) ==
    Len(cell_keys)

\* The first grid cell, in cell_rects order, that is empty; 0 when there is none.
FirstFreeCell(g) ==
    LET free == {i \in 1..Len(cell_keys) : g[cell_keys[i]] = None}
    IN  IF free = {} THEN 0 ELSE CHOOSE i \in free : \A j \in free : i <= j

\* The body of "for i, dt in enumerate(slots)" for the token dt in slot i.
ReturnTerm(st, i) ==
    LET t == st.slots[i]
        d == st.tok[t]
        f == FirstFreeCell(st.grid)
        moved ==
            IF d.origin_container = "grid"
            THEN [st EXCEPT !.tok[t].pos_key = d.origin_key,
                            !.tok[t].rect = d.origin_rect,
                            !.tok[t].container = "grid",
                            !.grid[d.origin_key] = t]
            ELSE IF f # 0
            THEN [st EXCEPT !.tok[t].pos_key = cell_keys[f],
                            !.tok[t].rect = <<"grid", cell_keys[f]>>,
                            !.tok[t].container = "grid",
                            !.grid[cell_keys[f]] = t]
            ELSE st
    IN  [moved EXCEPT !.slots[i] = None]

\* "Return terms to their original positions": the loop over the slots from i on.
RECURSIVE ReturnTerms(_, _)
ReturnTerms(st, i) ==
    IF i \notin SlotIdx THEN st
    ELSE ReturnTerms(IF st.slots[i] # None THEN ReturnTerm(st, i) ELSE st, i + 1)

\* feedback_message after the branch taken; remaining is draggable_terms after the
\* removal of the used terms.
Feedback(ok, remaining) ==
    IF ~ok THEN "Incorrect!"
    ELSE IF remaining = <<>> THEN "Great, you know it all!"
    ELSE "Correct!"

\* The block run when the check button is hit.
Submission(st) ==
    LET left_terms  == SlotTerms(st, 0, SLOTS_PER_SIDE)
        right_terms == SlotTerms(st, SLOTS_PER_SIDE, 2 * SLOTS_PER_SIDE)
        remaining   == RemoveUsed(st.draggable_terms, st.slots)
    IN  IF IsCorrect(st.equation_set, left_terms, right_terms)
        THEN [st EXCEPT
                !.slots = [i \in SlotIdx |-> None],
                !.draggable_terms = remaining,
                !.correct = TRUE,
                !.feedback_message = Feedback(TRUE, remaining)]
        ELSE [ReturnTerms(st, 0) EXCEPT
                !.correct = FALSE,
                !.feedback_message = Feedback(FALSE, st.draggable_terms)]

\* One iteration of "for event in pygame.event.get()", as a function of the state.
Step(st, event) ==
    LET sub == IF event.type = "MOUSEBUTTONDOWN" /\ CheckCollide(event.pos)
               THEN Submission(st) ELSE st
    IN  Dispatch(sub, sub.draggable_terms, event)

Event(event) ==
    LET nxt == Step(Cur, event)
    IN  /\ equation_set' = nxt.equation_set
        /\ grid' = nxt.grid
        /\ slots' = nxt.slots
        /\ tok' = nxt.tok
        /\ draggable_terms' = nxt.draggable_terms
        /\ correct' = nxt.correct
        /\ feedback_message' = nxt.feedback_message
        /\ UNCHANGED json_file

\* The state before the loop, for standard_set.json holding the export of the
\* given set: the set is read with from_json and its terms are dealt to shuffled
\* grid cells.
Load(equations) ==
    LET loaded == from_json(to_json(equations))
        all_terms == SetAllTerms(loaded)
        ids == 1..NumTokens(all_terms)
    IN  \E available_positions \in [ids -> Cells] :
            /\ \A a, b \in ids :
                  a # b => available_positions[a] # available_positions[b]
            /\ json_file = File(to_json(equations))
            /\ equation_set = loaded
            /\ grid = [k \in Cells |->
                          IF \E t \in ids : available_positions[t] = k
                          THEN CHOOSE t \in ids : available_positions[t] = k
                          ELSE None]
            /\ tok = [t \in ids |->
                         DraggableTerm(all_terms[t], available_positions[t], "grid")]
            /\ slots = [i \in SlotIdx |-> None]
            /\ draggable_terms = [t \in ids |-> t]
            /\ correct = FALSE
            /\ feedback_message = ""

Init == Load(ONE_EQUATION_SET)

\* Events, by type.
Down(pos) == [type |-> "MOUSEBUTTONDOWN", pos |-> pos]
Up(pos) == [type |-> "MOUSEBUTTONUP", pos |-> pos]
Motion(pos) == [type |-> "MOUSEMOTION", pos |-> pos]

\* A MOUSEBUTTONDOWN on the check button: the submission, then the dispatch.
Check == \E pos \in Points : CheckCollide(pos) /\ Event(Down(pos))

MouseButtonDown == \E pos \in Points : ~CheckCollide(pos) /\ Event(Down(pos))

MouseButtonUp == \E pos \in Points : Event(Up(pos))

MouseMotion == \E pos \in Points : Event(Motion(pos))

Next == Check \/ MouseButtonDown \/ MouseButtonUp \/ MouseMotion

Spec == Init /\ [][Next]_vars

\* The drag lifecycle alone: pointer events away from the check button.
NextDrag == MouseButtonDown \/ MouseButtonUp \/ MouseMotion

SpecDrag == Init /\ [][NextDrag]_vars

\* A one-button pointer without motion events: a press is delivered only while
\* no token is dragging, a release only while one is.
NoDrag == \A t \in Tokens : ~tok[t].dragging

Press == NoDrag /\ MouseButtonDown

Release == ~NoDrag /\ MouseButtonUp

Submit == NoDrag /\ Check

NextClicks == Press \/ Release \/ Submit

\* The game on the two-equation set, played with presses and releases.
SpecClicks == Load(TWO_SIGNS_SET) /\ [][NextClicks]_vars

NextPlace == Press \/ Release

\* The three-equation set on the board, tokens moved with presses and releases.
SpecSeed == Load(BASIC_EQUATION_SET) /\ [][NextPlace]_vars

----------------------------------------------------------------------------
(* Vocabulary of the properties                                            *)

InPlay == {draggable_terms[i] : i \in 1..Len(draggable_terms)}

Containers ==
    {<<"grid", k>> : k \in Cells} \cup {<<"slot", <<i>>>> : i \in SlotIdx}

\* The token a container holds in the state st, or None.
Occupant(st, c) == GetAt(st, c[1], c[2])

\* The containers that hold the token t in the state st.
Holders(st, t) == {c \in Containers : Occupant(st, c) = t}

\* The container a token names, and the one its origin names.
Location(d) == <<d.container, d.pos_key>>
Origin(d) == <<d.origin_container, d.origin_key>>

\* The rectangle of container c contains pos.
Contains(c, pos) ==
    IF c[1] = "grid" THEN CellCollide(c[2], pos) ELSE SlotCollide(c[2][1], pos)

\* The empty containers whose rectangle contains pos.
Candidates(st, pos) ==
    {c \in Containers : Contains(c, pos) /\ Occupant(st, c) = None}

\* Position of a container in the fixed priority: grid cells in cell_rects order,
\* then slots by index.
Rank(c) ==
    IF c[1] = "grid" THEN CHOOSE i \in 1..Len(cell_keys) : cell_keys[i] = c[2]
    ELSE Len(cell_keys) + c[2][1] + 1

\* The state in which the n-th token of the list handles the event: the tokens
\* before it have handled it.
Before(st, n, event) ==
    Dispatch(st, SubSeq(st.draggable_terms, 1, n - 1), event)

----------------------------------------------------------------------------
(* Properties of dragging and dropping                                     *)

\* C1: after any sequence of pointer-down, pointer-move and pointer-up events,
\* every container holds nothing or one token in play, and every token in play
\* is either dragging and held by no container, or held by exactly the one
\* container that its container/pos_key names.
PlacementInvariant ==
    /\ \A c \in Containers : Occupant(Cur, c) \in InPlay \cup {None}
    /\ \A t \in InPlay :
          Holders(Cur, t) = IF tok[t].dragging THEN {} ELSE {Location(tok[t])}

\* C2: whenever a pointer-up rolls a dragging token back, its origin container
\* is empty at the moment the token handles the event.
RollbackNeverOverwrites ==
    \A pos \in Points : \A n \in 1..Len(draggable_terms) :
        LET before == Before(Cur, n, Up(pos))
            d == before.tok[draggable_terms[n]]
        IN  (d.dragging /\ Candidates(before, pos) = {})
                => Occupant(before, Origin(d)) = None

\* C3: a token dragged from a grid cell into a slot is, after a submission that
\* follows the drop and matches no equation, back in that grid cell, and every
\* slot is empty.
FailedSubmissionReturnsToCell ==
    [][\A t \in InPlay :
          LET after == Step(Cur', Down(CheckPoint))
              X == Location(tok[t])
          IN  ( /\ tok[t].dragging /\ X[1] = "grid"
                /\ ~tok'[t].dragging /\ tok'[t].container = "slot"
                /\ Occupant(Cur', Location(tok'[t])) = t
                /\ ~after.correct )
              => /\ Location(after.tok[t]) = X
                 /\ Occupant(after, X) = t
                 /\ \A i \in SlotIdx : after.slots[i] = None]_vars

\* C4: a submission reports a match exactly when some equation of the active set
\* accepts the slot terms with check_input (terms compared by sign and code) in
\* one of the two orientations.
VerdictIsCheckInput ==
    [][Check =>
          LET L == SlotTerms(Cur, 0, SLOTS_PER_SIDE)
              R == SlotTerms(Cur, SLOTS_PER_SIDE, 2 * SLOTS_PER_SIDE)
          IN  correct' <=> \E i \in 1..Len(equation_set) :
                              \/ check_input(equation_set[i], L, R)
                              \/ check_input(equation_set[i], R, L)]_vars

\* C5: in every reachable state each token in play that is not dragging has its
\* origin container and key equal to its current container and key.
OriginIsConfirmedLocation ==
    \A t \in InPlay : ~tok[t].dragging => Origin(tok[t]) = Location(tok[t])

\* C6: a pointer-up at a point that lies in no empty container puts every
\* dragging token back in the container it was picked up from, and leaves every
\* other container as it was.
InvalidDropReturns ==
    [][\A pos \in Points :
          (Event(Up(pos)) /\ Candidates(Cur, pos) = {}) =>
              /\ \A t \in InPlay : tok[t].dragging =>
                    /\ ~tok'[t].dragging
                    /\ Location(tok'[t]) = Location(tok[t])
                    /\ Occupant(Cur', Location(tok[t])) = t
              /\ \A c \in Containers :
                    (\A t \in InPlay : tok[t].dragging => c # Location(tok[t]))
                        => Occupant(Cur', c) = Occupant(Cur, c)]_vars

\* C7: a matching submission removes every token that was in a slot from play
\* and leaves all slots empty; a token removed from play stays removed, is held
\* by no container and is changed by no later event.
MatchRemovesSlotTokens ==
    [][ /\ (Check /\ correct') =>
              /\ \A i \in SlotIdx : slots[i] # None => slots[i] \notin InPlay'
              /\ \A i \in SlotIdx : slots'[i] = None
        /\ \A t \in Tokens \ InPlay' : Holders(Cur', t) = {}
        /\ \A t \in Tokens \ InPlay : t \notin InPlay' /\ tok'[t] = tok[t] ]_vars

\* Tokens have been removed by a match, and a token still in play has since been
\* dropped into a slot.
MatchRemovesSlotTokens_witness ==
    /\ InPlay # Tokens
    /\ \E t \in InPlay : /\ ~tok[t].dragging /\ tok[t].container = "slot"
                         /\ Occupant(Cur, Location(tok[t])) = t

\* C8: a submission emits "Great, you know it all!" exactly when it matched and,
\* after the removal of the slot tokens, no grid cell and no slot holds a token
\* and no token is mid-drag.
CompleteSignal ==
    [][Check => ( feedback_message' = "Great, you know it all!"
                    <=> ( /\ correct'
                          /\ \A c \in Containers : Occupant(Cur', c) = None
                          /\ \A t \in InPlay' : ~tok'[t].dragging ) )]_vars

\* C9: a dragging token that handles a pointer-up at a point inside some empty
\* container commits to the first such container, grid cells before slots: the
\* container holds the token, the token's container/key and origin
\* container/key name it, and nothing else changes.
CommitsToFirstEmptyContainer ==
    \A pos \in Points : \A n \in 1..Len(draggable_terms) :
        LET t == draggable_terms[n]
            before == Before(Cur, n, Up(pos))
            after == handle_event(before, t, Up(pos))
            free == Candidates(before, pos)
        IN  (before.tok[t].dragging /\ free # {}) =>
                LET c == CHOOSE x \in free : \A y \in free : Rank(x) <= Rank(y)
                IN  /\ Occupant(after, c) = t
                    /\ \A y \in Containers \ {c} :
                          Occupant(after, y) = Occupant(before, y)
                    /\ ~after.tok[t].dragging
                    /\ Location(after.tok[t]) = c
                    /\ Origin(after.tok[t]) = c
                    /\ \A u \in Tokens \ {t} : after.tok[u] = before.tok[u]
                    /\ after.draggable_terms = before.draggable_terms

\* A token rests in a slot it has committed to.
CommitsToFirstEmptyContainer_witness ==
    \E t \in InPlay :
        /\ ~tok[t].dragging /\ tok[t].container = "slot"
        /\ Origin(tok[t]) = Location(tok[t])
        /\ Occupant(Cur, Location(tok[t])) = t

\* C10: a pointer-down inside a token's bounds sets the token dragging and
\* empties the container that held it in the same step, and no container ever
\* holds a token whose dragging flag is set.
PickupEmptiesContainer ==
    [][ /\ \A pos \in Points : Event(Down(pos)) =>
              \A t \in InPlay' : collidepoint(tok[t].rect, pos) =>
                  /\ tok'[t].dragging
                  /\ \A c \in Holders(Cur, t) : Occupant(Cur', c) = None
        /\ \A c \in Containers :
              Occupant(Cur', c) # None => ~tok'[Occupant(Cur', c)].dragging ]_vars

\* A token is dragging and the container it was picked up from is empty.
PickupEmptiesContainer_witness ==
    \E t \in InPlay : tok[t].dragging /\ Occupant(Cur, Location(tok[t])) = None

\* The tokens in play whose dragging flag is set in the state st.
Dragging(st) == {t \in InPlay : st.tok[t].dragging}

\* C11: a pointer-down sets the dragging flag of at most one token, and in every
\* reachable state at most one token is dragging.
SingleCapture ==
    [][ /\ \A pos \in Points : Event(Down(pos)) =>
              Cardinality(Dragging(Cur') \ Dragging(Cur)) <= 1
        /\ Cardinality(Dragging(Cur')) <= 1 ]_vars

\* C12: while no token is dragging, a pointer-up and a pointer-move at any
\* point leave every container and every token as they are.
StrayEventsIgnored ==
    Dragging(Cur) = {} =>
        \A pos \in Points : Step(Cur, Up(pos)) = Cur /\ Step(Cur, Motion(pos)) = Cur

\* No token is dragging, one rests in a slot and a grid cell is empty: a stray
\* pointer-up over that cell finds an empty container under the pointer.
StrayEventsIgnored_witness ==
    /\ Dragging(Cur) = {}
    /\ \E t \in InPlay : tok[t].container = "slot"
    /\ \E k \in Cells : grid[k] = None

\* Both sides of the equation consist only of the zero-term.
Degenerate(e) ==
    /\ \A i \in 1..Len(e.left) : TermEq(e.left[i], ZEREO_TERM)
    /\ \A i \in 1..Len(e.right) : TermEq(e.right[i], ZEREO_TERM)

\* C13: with every slot empty and no degenerate equation in the set, a
\* submission reports no match and leaves grid, slots and tokens unchanged.
EmptySubmission ==
    ( /\ \A i \in SlotIdx : slots[i] = None
      /\ \A i \in 1..Len(equation_set) : ~Degenerate(equation_set[i]) )
    => LET sub == Submission(Cur)
       IN  /\ ~sub.correct
           /\ sub.feedback_message = "Incorrect!"
           /\ sub.grid = grid /\ sub.slots = slots /\ sub.tok = tok
           /\ sub.draggable_terms = draggable_terms

\* An empty submission has been rejected while tokens are on the board.
EmptySubmission_witness ==
    /\ \A i \in SlotIdx : slots[i] = None
    /\ feedback_message = "Incorrect!"
    /\ \E k \in Cells : grid[k] # None

\* C14: at game start, and as long as every token rests in the grid, every
\* term of all_terms is carried by exactly one token, each token sits in a grid
\* cell of its own that references it, and all slots are empty.
SeededWithAllTerms ==
    (\A t \in Tokens : ~tok[t].dragging /\ tok[t].container = "grid") =>
        LET all_terms == SetAllTerms(equation_set)
        IN  /\ Len(all_terms) = Cardinality(Tokens)
            /\ \A i \in 1..Len(all_terms) :
                  Cardinality({t \in Tokens : t = i /\ tok[t].term = all_terms[i]}) = 1
            /\ \A t, u \in Tokens : t # u => tok[t].pos_key # tok[u].pos_key
            /\ \A t \in Tokens : grid[tok[t].pos_key] = t
            /\ \A i \in SlotIdx : slots[i] = None

----------------------------------------------------------------------------
(* An EquationSet edited with add_equation and remove_equation             *)

\* Size of the inputs: terms per side given to the constructor, equations given
\* to EquationSet, and members a set is grown to with add_equation.
MaxSide == 2
MaxInput == 2
MaxEquations == 3

\* The sequences over S of length at most n.
SeqsUpTo(S, n) == UNION {[1..k -> S] : k \in 0..n}

\* Sides given to the Equation constructor: the pressure term under both signs
\* on the left, nothing or the gas-law term on the right.
LeftSides == SeqsUpTo({P, T_P3}, MaxSide)
RightSides == {<<>>, <<RHO_R_T>>}

\* The equations the constructor builds from them, under the names of the two
\* gas laws.
EquationUniverse ==
    {Equation(n, l, r) : n \in {NEXT_GAS_LAW.name, GAS_LAW.name},
                         l \in LeftSides, r \in RightSides}

\* No game is loaded while the set is edited.
NoGame ==
    /\ grid = [k \in Cells |-> None]
    /\ slots = [i \in SlotIdx |-> None]
    /\ tok = <<>>
    /\ draggable_terms = <<>>
    /\ correct = FALSE
    /\ feedback_message = ""

\* EquationSet(equations) for a list of equations; nothing is exported.
Construct ==
    \E equations \in SeqsUpTo(EquationUniverse, MaxInput) :
        equation_set = EquationSet(equations) /\ NoGame /\ json_file = NoFile

AddEquation ==
    \E e \in EquationUniverse :
        /\ Len(equation_set) < MaxEquations \/ InEquations(e, equation_set)
        /\ equation_set' = add_equation(equation_set, e)
        /\ UNCHANGED <<grid, slots, tok, draggable_terms, correct, feedback_message,
                       json_file>>

RemoveEquation ==
    \E e \in EquationUniverse :
        /\ equation_set' = remove_equation(equation_set, e)
        /\ UNCHANGED <<grid, slots, tok, draggable_terms, correct, feedback_message,
                       json_file>>

NextSet == AddEquation \/ RemoveEquation

SpecSet == Construct /\ [][NextSet]_vars

----------------------------------------------------------------------------
(* Properties of Equation and EquationSet                                  *)

Members == {equation_set[i] : i \in 1..Len(equation_set)}

\* The number of terms of the side equal to x under Term equality.
Count(side, x) == Cardinality({i \in 1..Len(side) : TermEq(side[i], x)})

\* The two sides hold the same terms as multisets under Term equality.
SameTerms(a, b) ==
    Len(a) = Len(b) /\ \A i \in 1..Len(a) : Count(a, a[i]) = Count(b, a[i])

\* C15: a member of the set and an equation built by the constructor, from terms
\* given in any order and under any name, are equal exactly when their left
\* sides hold the same terms as multisets and their right sides do.
EqualityIsMultisetEquality ==
    \A m \in Members : \A e \in EquationUniverse :
        EquationEq(m, e) <=> (SameTerms(m.left, e.left) /\ SameTerms(m.right, e.right))

\* C16: check_input of a member accepts a pair of sides exactly when the left
\* side holds the same terms as the member's left side as a multiset and the
\* right side the same terms as its right side; the order inside a side does
\* not matter and a side of another length is rejected.
CheckInputIsMultisetEquality ==
    \A m \in Members : \A test_left \in LeftSides : \A test_right \in RightSides :
        check_input(m, test_left, test_right)
            <=> (SameTerms(test_left, m.left) /\ SameTerms(test_right, m.right))

\* Every equation of the one list is equal to an equation of the other.
SameEquations(s1, s2) ==
    /\ \A i \in 1..Len(s1) : InEquations(s1[i], s2)
    /\ \A i \in 1..Len(s2) : InEquations(s2[i], s1)

\* C17: the set and an EquationSet constructed from any list of equations are
\* equal exactly when they contain the same equations under Equation equality,
\* whatever the names of the equations and the order of the list.
SetEqualityIsSameEquations ==
    \A equations \in SeqsUpTo(EquationUniverse, MaxInput) :
        EquationSetEq(equation_set, EquationSet(equations))
            <=> SameEquations(equation_set, EquationSet(equations))

\* C18 as stated: for every equation e, add_equation(e) followed by
\* remove_equation(e) leaves the set equal to what it was.
AddRemoveCycle ==
    \A e \in EquationUniverse :
        EquationSetEq(remove_equation(add_equation(equation_set, e), e), equation_set)

\* C18, for an equation the set does not contain: add_equation(e) followed by
\* remove_equation(e) raises nothing and leaves the set equal to what it was.
AddRemoveCycleOfNew ==
    \A e \in EquationUniverse :
        ~InEquations(e, equation_set) =>
            /\ ~remove_raises(add_equation(equation_set, e), e)
            /\ EquationSetEq(remove_equation(add_equation(equation_set, e), e),
                             equation_set)

\* The set has been grown with add_equation, and an equation of a name that
\* sorts before the last member's is not contained: the cycle inserts it inside
\* the list.
AddRemoveCycleOfNew_witness ==
    /\ Len(equation_set) = MaxEquations
    /\ \E e \in EquationUniverse :
          ~InEquations(e, equation_set) /\ e.name < equation_set[MaxEquations].name

\* C19: for every equation e the set contains, under its own or another name,
\* remove_equation(e) followed by add_equation(e) leaves the set equal to what
\* it was.
RemoveAddCycle ==
    \A e \in EquationUniverse :
        InEquations(e, equation_set) =>
            EquationSetEq(add_equation(remove_equation(equation_set, e), e),
                          equation_set)

\* No two elements of the list are equal under Equation equality.
NoDuplicates(equations) ==
    \A i, j \in 1..Len(equations) :
        i # j => ~EquationEq(equations[i], equations[j])

\* C20: no two members of the set are equal under Equation equality; a set
\* constructed from any list keeps exactly one member for every entry of the
\* list; and add_equation of an equation already contained changes nothing.
NoEqualMembers ==
    /\ NoDuplicates(equation_set)
    /\ \A equations \in SeqsUpTo(Members \cup {NEXT_GAS_LAW, GAS_LAW}, MaxEquations) :
          LET built == EquationSet(equations)
          IN  /\ NoDuplicates(built)
              /\ \A i \in 1..Len(equations) :
                    Cardinality({j \in 1..Len(built) :
                                    EquationEq(built[j], equations[i])}) = 1
              /\ \A j \in 1..Len(built) : InEquations(built[j], equations)
    /\ \A e \in EquationUniverse :
          InEquations(e, equation_set) => add_equation(equation_set, e) = equation_set

\* The set has been grown to its largest size with add_equation and contains the
\* gas law, so a list of its members and the two gas laws has equal entries.
NoEqualMembers_witness ==
    Len(equation_set) = MaxEquations /\ InEquations(GAS_LAW, equation_set)

----------------------------------------------------------------------------
(* Terms and equations built by their constructors, and the JSON cycle     *)

\* Terms given for the left side of a new equation, and members a set is grown
\* to before it is exported.
MaxTerms == 1
MaxMembers == 3

\* Arguments given to the Term constructor <<name, latex_code, sign, sprite_id>>:
\* the pressure term under two names, with and without a sprite_id of the
\* caller, under both signs and under a sign that is none.
TermArgs ==
    { <<"pressure", P.latex_code, "+", None>>,
      <<"x", P.latex_code, "+", 1>>,
      <<"pressure", P.latex_code, "-", None>>,
      <<"pressure", P.latex_code, "*", None>> }

\* The Term for a tuple of arguments.
NewTerm(args) == TermInit(args[1], args[2], args[3], args[4])

\* [Term(...) for ... in side]
NewSide(side) == [i \in 1..Len(side) |-> NewTerm(side[i])]

\* The set is empty and nothing is exported.
NoData == equation_set = EquationSet(<<>>) /\ NoGame /\ json_file = NoFile

\* Terms are constructed (none raises), an Equation is constructed from them and
\* added to the set.
NewEquation ==
    \E name \in {NEXT_GAS_LAW.name, GAS_LAW.name},
       left \in SeqsUpTo(TermArgs, MaxTerms) :
        /\ \A i \in 1..Len(left) : ~Term_raises(left[i][3])
        /\ Len(equation_set) < MaxMembers
        /\ equation_set' = add_equation(equation_set, Equation(name, NewSide(left), <<>>))
        /\ UNCHANGED <<grid, slots, tok, draggable_terms, correct, feedback_message,
                       json_file>>

\* A member is removed.
DropEquation ==
    \E i \in 1..Len(equation_set) :
        /\ equation_set' = remove_equation(equation_set, equation_set[i])
        /\ UNCHANGED <<grid, slots, tok, draggable_terms, correct, feedback_message,
                       json_file>>

\* equation_set.to_json(path)
ToJson ==
    /\ json_file' = File(to_json(equation_set))
    /\ UNCHANGED <<equation_set, grid, slots, tok, draggable_terms, correct,
                   feedback_message>>

\* equation_set = EquationSet.from_json(path)
FromJson ==
    /\ json_file.exists
    /\ ~from_json_raises(json_file.records)
    /\ equation_set' = from_json(json_file.records)
    /\ UNCHANGED <<grid, slots, tok, draggable_terms, correct, feedback_message,
                   json_file>>

NextData == NewEquation \/ DropEquation \/ ToJson \/ FromJson

SpecData == NoData /\ [][NextData]_vars

----------------------------------------------------------------------------
(* Order of the members                                                    *)

\* The names of the list are ascending.
AscendingNames(equations) ==
    \A i, j \in 1..Len(equations) :
        i < j => equations[i].name <= equations[j].name

\* C21: after construction and after any sequence of add_equation and
\* remove_equation calls, the equations of the set are in ascending order of
\* their names.
EquationsSortedByName == AscendingNames(equation_set)

\* A set grown to its largest size that holds equations under both names.
EquationsSortedByName_witness ==
    /\ Len(equation_set) = MaxEquations
    /\ equation_set[1].name # equation_set[MaxEquations].name

----------------------------------------------------------------------------
(* Terms                                                                   *)

\* The Terms of the members of the set.
MemberTerms ==
    UNION {{e.left[i] : i \in 1..Len(e.left)} \cup {e.right[i] : i \in 1..Len(e.right)} :
           e \in Members}

\* Terms the constructor builds: two names, two codes, both signs, with and
\* without a sprite_id of the caller.
TermUniverse ==
    {TermInit(name, latex_code, sign, sprite_id) :
        name \in {"pressure", "x"}, latex_code \in {RHO_R_T.latex_code, P.latex_code},
        sign \in {"+", "-"}, sprite_id \in {None, 1}}

\* C22: two Terms are equal iff their sign and their code are equal; the
\* display name and the sprite id never influence the result.
TermEqualityIsSignAndCode ==
    \A t \in MemberTerms \cup TermUniverse : \A u \in TermUniverse :
        /\ TermEq(t, u) <=> (t.sign = u.sign /\ t.latex_code = u.latex_code)
        /\ TermEq(u, t) <=> TermEq(t, u)
        /\ \A name \in {"pressure", "x"}, sprite_id \in {1, sha1(t.sign, t.latex_code)} :
              TermEq([t EXCEPT !.name = name, !.sprite_id = sprite_id], u) <=> TermEq(t, u)

\* A member holds a Term that is equal to one of another name and sprite id, and
\* one that differs from it in the sign only.
TermEqualityIsSignAndCode_witness ==
    \E t, v \in MemberTerms : \E u \in TermUniverse :
        /\ TermEq(t, u) /\ t.name # u.name /\ t.sprite_id # u.sprite_id
        /\ ~TermEq(t, v) /\ t.name = v.name /\ t.latex_code = v.latex_code

\* C23: constructing a Term with a sign other than "+" or "-" fails with an
\* error and yields no Term; every Term that exists, in the set or read from the
\* exported file, has sign "+" or "-".
SignIsPlusOrMinus ==
    /\ \A args \in TermArgs : Term_raises(args[3]) <=> args[3] \notin {"+", "-"}
    /\ \A t \in MemberTerms \cup TermUniverse : \A sign \in {"+", "-", "*", "1", "a", ""} :
          TermFromDict_raises([TermAsDict(t) EXCEPT !.sign = sign])
              <=> sign \notin {"+", "-"}
    /\ \A t \in MemberTerms : t.sign \in {"+", "-"}
    /\ \A i \in 1..Len(json_file.records) :
          \A j \in 1..Len(json_file.records[i].left) :
              json_file.records[i].left[j].sign \in {"+", "-"}

\* Terms of both signs have been constructed, and exported.
SignIsPlusOrMinus_witness ==
    /\ \E t, u \in MemberTerms : t.sign = "+" /\ u.sign = "-" /\ t.name = u.name
    /\ Len(json_file.records) > 1

\* C24: for every Term t, Term.from_dict(t.as_dict()) equals t, and the rebuilt
\* Term has the same name, sign, code and sprite id as t.
TermDictCycle ==
    \A t \in MemberTerms \cup TermUniverse :
        LET data == TermAsDict(t)
            rebuilt == TermFromDict(data)
        IN  /\ ~TermFromDict_raises(data)
            /\ TermEq(rebuilt, t)
            /\ rebuilt.name = t.name /\ rebuilt.sign = t.sign
            /\ rebuilt.latex_code = t.latex_code /\ rebuilt.sprite_id = t.sprite_id

\* The set read back from its export holds a Term with a sprite_id of the caller
\* and one with the digest.
TermDictCycle_witness ==
    /\ json_file.exists /\ equation_set = from_json(json_file.records)
    /\ \E t, u \in MemberTerms :
          t.sprite_id = 1 /\ u.sprite_id = sha1(u.sign, u.latex_code)

\* C25: for Terms constructed without an explicit sprite id, the sprite path is a
\* pure function of sign and code: two such Terms have the same sprite path iff
\* they have the same sign and the same code, whatever their names and however
\* often they are constructed.
SpritePathIsSignAndCode ==
    LET Default == {t \in MemberTerms : t.sprite_id # 1}
                   \cup {Term(name, latex_code, sign) :
                            name \in {"pressure", "x"},
                            latex_code \in {RHO_R_T.latex_code, P.latex_code},
                            sign \in {"+", "-"}}
    IN  \A t, u \in Default :
            /\ get_sprite_path(t) = get_sprite_path(u)
                  <=> (t.sign = u.sign /\ t.latex_code = u.latex_code)
            /\ get_sprite_path(Term(t.name, t.latex_code, t.sign)) = get_sprite_path(t)

\* Terms of both signs constructed without a sprite id are members of the set.
SpritePathIsSignAndCode_witness ==
    \E t, u \in MemberTerms :
        /\ t.sprite_id # 1 /\ u.sprite_id # 1
        /\ t.sign # u.sign /\ t.latex_code = u.latex_code

----------------------------------------------------------------------------
(* Equations                                                               *)

\* The codes of the side are ascending.
AscendingCodes(side) ==
    \A i, j \in 1..Len(side) : i < j => side[i].latex_code <= side[j].latex_code

\* C26: every Equation has a non-empty left side and a non-empty right side, each
\* ordered by term code ascending; a side given as empty at construction is
\* replaced by the single zero-term (sign "+", code "0").
SidesNonEmptyAndSorted ==
    /\ \A m \in Members :
          /\ m.left # <<>> /\ m.right # <<>>
          /\ AscendingCodes(m.left) /\ AscendingCodes(m.right)
    /\ \A left \in SeqsUpTo({P, T_P3, RHO_R_T}, MaxSide), right \in RightSides :
          LET e == Equation(GAS_LAW.name, left, right)
              IsZero(side) == /\ Len(side) = 1
                              /\ side[1].sign = "+" /\ side[1].latex_code = 0
          IN  /\ e.left # <<>> /\ e.right # <<>>
              /\ AscendingCodes(e.left) /\ AscendingCodes(e.right)
              /\ left = <<>> => IsZero(e.left)
              /\ right = <<>> => IsZero(e.right)
              /\ left # <<>> => SameTerms(e.left, left)
              /\ right # <<>> => SameTerms(e.right, right)

\* The set holds an equation built with an empty side and one with two terms on a
\* side.
SidesNonEmptyAndSorted_witness ==
    \E m, n \in Members :
        /\ m.left = <<ZEREO_TERM>> /\ m.right = <<ZEREO_TERM>>
        /\ Len(n.left) = MaxSide

\* C27: Equation equality is side-sensitive: a member of the set, or an equation
\* built with pressure terms on both sides, whose two sides are not the same
\* multiset of terms is not equal to its mirror image with left and right
\* swapped, and check_input with the two test sides swapped returns false for it.
EqualityIsSideSensitive ==
    \A e \in Members \cup {Equation(GAS_LAW.name, left, right) :
                              left \in LeftSides, right \in LeftSides} :
        ~SameTerms(e.left, e.right) =>
            LET mirror == Equation(e.name, e.right, e.left)
                Reversed(side) == [i \in 1..Len(side) |-> side[Len(side) + 1 - i]]
            IN  /\ ~EquationEq(e, mirror)
                /\ ~EquationEq(mirror, e)
                /\ ~check_input(e, e.right, e.left)
                /\ ~check_input(e, Reversed(e.right), Reversed(e.left))

\* A member with two terms on the left and another term on the right.
EqualityIsSideSensitive_witness ==
    \E m \in Members :
        /\ Len(m.left) = MaxSide /\ m.right = <<RHO_R_T>>
        /\ ~SameTerms(m.left, m.right)

----------------------------------------------------------------------------
(* The JSON cycle                                                          *)

----------------------------------------------------------------------------
(* Removal                                                                 *)

\* C30: remove_equation(e) on a set that does not contain e (under Equation
\* equality) fails with an error and leaves the set's equations unchanged; when e
\* is contained, exactly one member, the one equal to e, is removed.
RemoveIsExact ==
    \A e \in EquationUniverse :
        LET after == remove_equation(equation_set, e)
        IN  IF InEquations(e, equation_set)
            THEN /\ ~remove_raises(equation_set, e)
                 /\ \E i \in 1..Len(equation_set) :
                       /\ EquationEq(equation_set[i], e)
                       /\ after = [j \in 1..(Len(equation_set) - 1) |->
                                      IF j < i THEN equation_set[j]
                                      ELSE equation_set[j + 1]]
                 /\ ~InEquations(e, after)
            ELSE /\ remove_raises(equation_set, e)
                 /\ after = equation_set

\* A set of the largest size that contains one equation of the universe under
\* another name and does not contain another.
RemoveIsExact_witness ==
    /\ Len(equation_set) = MaxEquations
    /\ \E e, f \in EquationUniverse :
          /\ ~InEquations(f, equation_set)
          /\ \E m \in Members : EquationEq(m, e) /\ m.name # e.name

----------------------------------------------------------------------------
(* all_terms                                                               *)

\* The sum of the side lengths of the first n equations of the list.
RECURSIVE TermsBefore(_, _)
TermsBefore(equations, n) ==
    IF n = 0 THEN 0
    ELSE TermsBefore(equations, n - 1)
         + Len(equations[n].left) + Len(equations[n].right)

\* C31: EquationSet.all_terms is the concatenation, in the set's equation order,
\* of each equation's left terms followed by its right terms; its length is the
\* sum of the side lengths of all member equations, a term shared by several
\* equations appearing once per occurrence.
AllTermsIsConcatenation ==
    LET all_terms == SetAllTerms(equation_set)
    IN  /\ Len(all_terms) = TermsBefore(equation_set, Len(equation_set))
        /\ \A i \in 1..Len(equation_set) :
              LET e == equation_set[i]
                  before == TermsBefore(equation_set, i - 1)
              IN  /\ \A j \in 1..Len(e.left) : all_terms[before + j] = e.left[j]
                  /\ \A j \in 1..Len(e.right) :
                        all_terms[before + Len(e.left) + j] = e.right[j]

\* A set of the largest size in which the gas-law term is on the right of more
\* than one equation and one equation has two terms on the left.
AllTermsIsConcatenation_witness ==
    /\ Len(equation_set) = MaxEquations
    /\ Cardinality({i \in 1..Len(equation_set) : equation_set[i].right = <<RHO_R_T>>}) > 1
    /\ \E m \in Members : Len(m.left) = MaxSide

----------------------------------------------------------------------------
(* The tokens in play and the equations left to solve                      *)

\* [dt.term for dt in draggable_terms]
TermsInPlay == [i \in 1..Len(draggable_terms) |-> tok[draggable_terms[i]].term]

\* C32: in every state reachable through drags and submissions, the multiset of
\* terms carried by the tokens still in play equals the union of all terms of
\* some sub-collection of the set's equations (the ones not yet solved).
InPlayIsUnsolvedEquations ==
    \E unsolved \in SUBSET Members :
        SameTerms(TermsInPlay,
                  SetAllTerms(SelectSeq(equation_set, LAMBDA e : e \in unsolved)))

----------------------------------------------------------------------------
(* Pointer-down on a token that is dragging                                *)

\* C33: a pointer-down whose coordinates fall inside a token that is already
\* dragging does not start a new drag and changes nothing: no container is
\* cleared and the token's container, key and origin stay as they were.
DownOnDraggingChangesNothing ==
    \A t \in Dragging(Cur) : \A pos \in Points :
        collidepoint(tok[t].rect, pos) =>
            LET after == handle_event(Cur, t, Down(pos))
            IN  /\ \A c \in Containers : Occupant(after, c) = Occupant(Cur, c)
                /\ after.tok[t] = tok[t]

----------------------------------------------------------------------------
(* The non-matching submission                                             *)

----------------------------------------------------------------------------
(* The tokens in play                                                      *)

----------------------------------------------------------------------------
(* The grid during a submission                                            *)

\* C36: a submission, matching or not, never moves or removes a token that is in
\* a grid cell at the time of the submission: each such token keeps its cell, and
\* the cell keeps referencing it.  The submission is the block run when the check
\* button is hit, before the click is handed to the tokens.
SubmissionKeepsGridTokens ==
    LET sub == Submission(Cur)
    IN  \A t \in InPlay : \A k \in Cells :
            (grid[k] = t /\ Location(tok[t]) = <<"grid", k>>) =>
                /\ \E i \in 1..Len(sub.draggable_terms) : sub.draggable_terms[i] = t
                /\ sub.grid[k] = t
                /\ sub.tok[t] = tok[t]

\* A match has removed the tokens of the slots, and the tokens that were in grid
\* cells are still in play, each in its cell.
SubmissionKeepsGridTokens_witness ==
    /\ feedback_message = "Correct!"
    /\ InPlay # {}
    /\ \A t \in InPlay : /\ tok[t].container = "grid" /\ ~tok[t].dragging
                         /\ grid[tok[t].pos_key] = t
                         /\ Origin(tok[t]) = Location(tok[t])

====
